---- MODULE Spec2Model ----
(***************************************************************************)
(* Model of listener.go (package manners): GracefulListener.Accept and     *)
(* GracefulListener.Close, run by several goroutines against one           *)
(* GracefulListener.  Every atomic step of the two methods is one action;  *)
(* the wrapped net.Listener is the environment and may make its Accept     *)
(* return a connection or an error at any time, and its Close return nil   *)
(* or an error.                                                            *)
(***************************************************************************)
EXTENDS Naturals, Sequences, FiniteSets

\* Number of goroutines calling into the listener.
NumThreads == 3

\* Total number of Accept()/Close() calls the goroutines issue in one run.
MaxCalls == 3

Threads == 1..NumThreads

\* A Go error value is a sequence: <<>> is nil, <<e>> is an error produced
\* by the wrapped listener, <<"listenerAlreadyClosed", e>> is that error
\* embedded in the listenerAlreadyClosed struct.
Nil == <<>>

\* Errors the wrapped listener's Accept can return.
AcceptErrors == {<<"E1">>, <<"E2">>}

\* Errors the wrapped listener's Close can return.
CloseErrors == {<<"EC">>}

\* Raw connections the wrapped listener's Accept can return.
RawConns == {"c1", "c2"}

\* Outcomes of l.Listener.Accept(): (conn, nil) or (nil, err).  A pointer
\* or interface holding a connection is a sequence of length at most one.
ListenerAccept ==
    {[conn |-> <<c>>, err |-> Nil] : c \in RawConns}
        \cup {[conn |-> <<>>, err |-> e] : e \in AcceptErrors}

\* Outcomes of l.Listener.Close().
ListenerClose == {Nil} \cup CloseErrors

\* Mutant: the struct literal drops the embedded error.
listenerAlreadyClosedDropsError(err) == <<"listenerAlreadyClosed">>

\* listenerAlreadyClosed{err}: the struct embedding the original error.
listenerAlreadyClosed(err) == <<"listenerAlreadyClosed">> \o err

\* Mutant: the connection is created with a non-zero http.ConnState.
gracefulConnWrongState(conn, state) == [Conn |-> conn, lastHTTPState |-> state + 1]

\* &gracefulConn{conn, state}
gracefulConn(conn, state) == [Conn |-> conn, lastHTTPState |-> state]

\* Mutant: the flag is read as if it were still open.
LoadInt32Stale(val) == 1

\* atomic.LoadInt32(&l.open)
LoadInt32(val) == val

\* Mutant: the swap is performed whatever the current value is.
CompareAndSwapInt32Always(val, old, new) == [swapped |-> TRUE, val |-> new]

\* Mutant: the operands are exchanged, so a closed flag is reopened.
CompareAndSwapInt32Reopens(val, old, new) ==
    [swapped |-> TRUE, val |-> IF val = old THEN new ELSE old]

\* Mutant: the swap is reported but the new value is not stored.
CompareAndSwapInt32NoStore(val, old, new) == [swapped |-> val = old, val |-> val]

\* atomic.CompareAndSwapInt32(&l.open, old, new) on a cell holding val.
CompareAndSwapInt32(val, old, new) ==
    [swapped |-> val = old, val |-> IF val = old THEN new ELSE val]

\* Mutant: the error is wrapped without looking at the flag.
ClassifyAlways(err, flag) == listenerAlreadyClosed(err)

\* Mutant: the comparison with 0 is inverted.
ClassifyInverted(err, flag) == IF flag # 0 THEN listenerAlreadyClosed(err) ELSE err

\* Lines 40-42: the error Accept returns for inner error err and flag read.
Classify(err, flag) == IF flag = 0 THEN listenerAlreadyClosed(err) ELSE err

\* Calls of tcpKeepAliveListener.Accept in one run.
MaxKeepAliveCalls == 2

\* time.Minute, in seconds.
Minute == 60

\* Line 79: 3 * time.Minute
KeepAlivePeriod == 3 * Minute

\* A *net.TCPConn: its identity and the socket options it carries (the
\* keep-alive period in seconds, 15 or already 180 when accepted).
TCPConns ==
    [id : RawConns, keepAlive : BOOLEAN,
     keepAlivePeriod : {15, 180}, noDelay : BOOLEAN]

\* Outcomes of ln.AcceptTCP(): (tc, nil) or (nil, err).
AcceptTCP ==
    {[tc |-> <<c>>, err |-> Nil] : c \in TCPConns}
        \cup {[tc |-> <<>>, err |-> e] : e \in AcceptErrors}

\* tc.SetKeepAlive(on): the socket after the call.  The call can fail, and
\* then it leaves the option as it was; line 78 discards its error.
SetKeepAlive(tc, on, ok) == IF ok THEN [tc EXCEPT !.keepAlive = on] ELSE tc

\* tc.SetKeepAlivePeriod(d): likewise; line 79 discards its error.
SetKeepAlivePeriod(tc, d, ok) ==
    IF ok THEN [tc EXCEPT !.keepAlivePeriod = d] ELSE tc

VARIABLES
    open,              \* GracefulListener.open
    pc,                \* per goroutine: the source line it is at
    loc,               \* per goroutine: locals of the call in progress
    retAccept,         \* what the last completed Accept() returned
    retClose,          \* what the last completed Close() returned
    calls,             \* Accept()/Close() calls begun so far
    closeCalls,        \* Close() calls begun so far
    closeReturns,      \* Close() calls that have returned
    closeErrReturns,   \* Close() calls that have returned a non-nil error
    casWins,           \* successful compare-and-swaps so far
    innerAcceptCalls,  \* invocations of l.Listener.Accept()
    innerCloseCalls,   \* invocations of l.Listener.Close()
    innerCloseResults  \* what those invocations returned, in order

\* State of one goroutine calling tcpKeepAliveListener.Accept.
VARIABLES
    kaPc,              \* the source line it is at
    kaLoc,             \* its locals tc and err, and what AcceptTCP returned
    kaRet,             \* what its last completed call returned
    kaCalls            \* calls begun so far

kaVars == <<kaPc, kaLoc, kaRet, kaCalls>>

glVars == <<open, pc, loc, retAccept, retClose, calls, closeCalls, closeReturns,
            closeErrReturns, casWins, innerAcceptCalls, innerCloseCalls,
            innerCloseResults>>

vars == <<open, pc, loc, retAccept, retClose, calls, closeCalls, closeReturns, closeErrReturns,
          casWins, innerAcceptCalls, innerCloseCalls, innerCloseResults,
          kaPc, kaLoc, kaRet, kaCalls>>

\* Locals of a call that has just begun.  flagRead = 2 means "not read";
\* failedAt is how far Close() had got when the inner accept failed.
NewLoc(afterClose, closeBegun) ==
    [conn |-> <<>>, err |-> Nil, innerErr |-> Nil, innerOK |-> FALSE,
     flagRead |-> 2, won |-> FALSE,
     startedAfterCloseReturned |-> afterClose,
     startedAfterCloseBegun |-> closeBegun,
     failedAfterCloseReturned |-> FALSE,
     failedAt |-> "none"]

IdleLoc == NewLoc(FALSE, FALSE)

\* The record of a completed call.
Returned(op, conn, err, l, cas) ==
    [op |-> op, conn |-> conn, err |-> err, innerErr |-> l.innerErr,
     innerConn |-> l.conn,
     innerOK |-> l.innerOK, flagRead |-> l.flagRead, won |-> l.won,
     startedAfterCloseReturned |-> l.startedAfterCloseReturned,
     startedAfterCloseBegun |-> l.startedAfterCloseBegun,
     failedAfterCloseReturned |-> l.failedAfterCloseReturned,
     failedAt |-> l.failedAt,
     casBeforeReturn |-> cas]

NoReturn == Returned("none", <<>>, Nil, IdleLoc, FALSE)

\* How far Close() has got: "open" before any compare-and-swap succeeded,
\* "flipped" once the flag is 0 (line 52), "closing" once l.Listener.Close()
\* has been invoked (line 53).
ClosePhase ==
    IF innerCloseCalls > 0 THEN "closing"
    ELSE IF casWins > 0 THEN "flipped" ELSE "open"

\* Locals of tcpKeepAliveListener.Accept before AcceptTCP has returned.
\* accepted is the connection as AcceptTCP returned it; setters lists the
\* setter calls made so far with their success.
KAIdleLoc == [tc |-> <<>>, err |-> Nil, accepted |-> <<>>, setters |-> <<>>]

\* The record of a completed tcpKeepAliveListener.Accept.
KAReturned(c, err, l) ==
    [op |-> "Accept", c |-> c, err |-> err, accepted |-> l.accepted,
     innerErr |-> l.err, setters |-> l.setters]

KANoReturn == [KAReturned(<<>>, Nil, KAIdleLoc) EXCEPT !.op = "none"]

\* NewListener: &GracefulListener{l, 1}
NewListener == 1

Init ==
    /\ open = NewListener
    /\ pc = [t \in Threads |-> "idle"]
    /\ loc = [t \in Threads |-> IdleLoc]
    /\ retAccept = NoReturn
    /\ retClose = NoReturn
    /\ calls = 0
    /\ closeCalls = 0
    /\ closeReturns = 0
    /\ closeErrReturns = 0
    /\ casWins = 0
    /\ innerAcceptCalls = 0
    /\ innerCloseCalls = 0
    /\ innerCloseResults = <<>>
    /\ kaPc = "idle"
    /\ kaLoc = KAIdleLoc
    /\ kaRet = KANoReturn
    /\ kaCalls = 0

\* Goroutine t may begin a call: it is idle, and it is the first idle one
\* (idle goroutines are interchangeable, so one of them stands for all).
CanCall(t) ==
    /\ pc[t] = "idle"
    /\ \A u \in Threads : u < t => pc[u] # "idle"

\* A goroutine calls l.Accept() and enters l.Listener.Accept() (line 38).
AcceptCall(t) ==
    /\ CanCall(t)
    /\ calls < MaxCalls
    /\ calls' = calls + 1
    /\ pc' = [pc EXCEPT ![t] = "L38"]
    /\ loc' = [loc EXCEPT ![t] = NewLoc(closeReturns > 0, closeCalls > 0)]
    /\ innerAcceptCalls' = innerAcceptCalls + 1
    /\ UNCHANGED <<open, retAccept, retClose, closeCalls, closeReturns, closeErrReturns,
                   casWins, innerCloseCalls, innerCloseResults, kaVars>>

\* l.Listener.Accept() returns (line 38) and err is tested (line 39).
AcceptInnerReturns(t) ==
    /\ pc[t] = "L38"
    /\ \E r \in ListenerAccept :
          /\ loc' = [loc EXCEPT ![t].conn = r.conn, ![t].err = r.err,
                                ![t].innerErr = r.err,
                                ![t].innerOK = (r.err = Nil),
                                ![t].failedAfterCloseReturned =
                                    (r.err # Nil /\ closeReturns > 0),
                                ![t].failedAt =
                                    IF r.err # Nil THEN ClosePhase ELSE "none"]
          /\ pc' = [pc EXCEPT ![t] = IF r.err # Nil THEN "L40" ELSE "L46"]
    /\ UNCHANGED <<open, retAccept, retClose, calls, closeCalls, closeReturns, closeErrReturns,
                   casWins, innerCloseCalls, innerCloseResults,
                   innerAcceptCalls, kaVars>>

\* Mutant: a failed Accept() marks the listener closed.
AcceptLoadClosesFlag(t) ==
    /\ pc[t] = "L40"
    /\ LET flag == LoadInt32(open) IN
          loc' = [loc EXCEPT ![t].flagRead = flag,
                             ![t].err = Classify(loc[t].err, flag)]
    /\ open' = 0
    /\ pc' = [pc EXCEPT ![t] = "L43"]
    /\ UNCHANGED <<retAccept, retClose, calls, closeCalls, closeReturns,
                   closeErrReturns, casWins, innerCloseCalls,
                   innerCloseResults, innerAcceptCalls, kaVars>>

\* Lines 40-42: the flag is loaded and the error is wrapped if it is 0.
AcceptLoad(t) ==
    /\ pc[t] = "L40"
    /\ LET flag == LoadInt32(open) IN
          loc' = [loc EXCEPT ![t].flagRead = flag,
                             ![t].err = Classify(loc[t].err, flag)]
    /\ pc' = [pc EXCEPT ![t] = "L43"]
    /\ UNCHANGED <<open, retAccept, retClose, calls, closeCalls, closeReturns, closeErrReturns,
                   casWins, innerCloseCalls, innerCloseResults,
                   innerAcceptCalls, kaVars>>

\* Mutant: an error read with the flag open is retried instead of returned.
AcceptReturnErrRetries(t) ==
    /\ pc[t] = "L43"
    /\ IF loc[t].flagRead = 1
       THEN /\ pc' = [pc EXCEPT ![t] = "L38"]
            /\ innerAcceptCalls' = innerAcceptCalls + 1
            /\ UNCHANGED <<loc, retAccept>>
       ELSE /\ retAccept' = Returned("Accept", <<>>, loc[t].err, loc[t],
                                     casWins > 0)
            /\ pc' = [pc EXCEPT ![t] = "idle"]
            /\ loc' = [loc EXCEPT ![t] = IdleLoc]
            /\ UNCHANGED innerAcceptCalls
    /\ UNCHANGED <<open, retClose, calls, closeCalls, closeReturns,
                   closeErrReturns, casWins, innerCloseCalls,
                   innerCloseResults, kaVars>>

\* Line 43: return nil, err
AcceptReturnErr(t) ==
    /\ pc[t] = "L43"
    /\ retAccept' = Returned("Accept", <<>>, loc[t].err, loc[t], casWins > 0)
    /\ pc' = [pc EXCEPT ![t] = "idle"]
    /\ loc' = [loc EXCEPT ![t] = IdleLoc]
    /\ UNCHANGED <<open, retClose, calls, closeCalls, closeReturns, closeErrReturns,
                   casWins, innerCloseCalls, innerCloseResults,
                   innerAcceptCalls, kaVars>>

\* Mutant: a connection accepted while the flag is closed is refused.
AcceptReturnConnGated(t) ==
    /\ pc[t] = "L46"
    /\ retAccept' =
          IF open = 0
          THEN Returned("Accept", <<>>, listenerAlreadyClosed(<<"E1">>),
                        loc[t], casWins > 0)
          ELSE Returned("Accept", <<gracefulConn(Head(loc[t].conn), 0)>>,
                        Nil, loc[t], casWins > 0)
    /\ pc' = [pc EXCEPT ![t] = "idle"]
    /\ loc' = [loc EXCEPT ![t] = IdleLoc]
    /\ UNCHANGED <<open, retClose, calls, closeCalls, closeReturns,
                   closeErrReturns, casWins, innerCloseCalls,
                   innerCloseResults, innerAcceptCalls, kaVars>>

\* Lines 46-47: gconn := &gracefulConn{conn, 0}; return gconn, nil
AcceptReturnConn(t) ==
    /\ pc[t] = "L46"
    /\ retAccept' = Returned("Accept", <<gracefulConn(Head(loc[t].conn), 0)>>,
                           Nil, loc[t], casWins > 0)
    /\ pc' = [pc EXCEPT ![t] = "idle"]
    /\ loc' = [loc EXCEPT ![t] = IdleLoc]
    /\ UNCHANGED <<open, retClose, calls, closeCalls, closeReturns, closeErrReturns,
                   casWins, innerCloseCalls, innerCloseResults,
                   innerAcceptCalls, kaVars>>

\* A goroutine calls l.Close() and stands before line 52.
CloseCall(t) ==
    /\ CanCall(t)
    /\ calls < MaxCalls
    /\ calls' = calls + 1
    /\ closeCalls' = closeCalls + 1
    /\ pc' = [pc EXCEPT ![t] = "L52"]
    /\ loc' = [loc EXCEPT ![t] = NewLoc(closeReturns > 0, closeCalls > 0)]
    /\ UNCHANGED <<open, retAccept, retClose, closeReturns, closeErrReturns,
                   casWins, innerCloseCalls, innerCloseResults,
                   innerAcceptCalls, kaVars>>

\* Line 52: if atomic.CompareAndSwapInt32(&l.open, 1, 0)
CloseCAS(t) ==
    /\ pc[t] = "L52"
    /\ LET r == CompareAndSwapInt32(open, 1, 0) IN
          /\ open' = r.val
          /\ pc' = [pc EXCEPT ![t] = IF r.swapped THEN "L53" ELSE "L56"]
          /\ loc' = [loc EXCEPT ![t].won = r.swapped]
          /\ casWins' = IF r.swapped THEN casWins + 1 ELSE casWins
    /\ UNCHANGED <<retAccept, retClose, calls, closeCalls, closeReturns, closeErrReturns,
                   innerCloseCalls, innerCloseResults,
                   innerAcceptCalls, kaVars>>

\* Line 53: l.Listener.Close() is invoked.
CloseInnerInvoke(t) ==
    /\ pc[t] = "L53"
    /\ innerCloseCalls' = innerCloseCalls + 1
    /\ pc' = [pc EXCEPT ![t] = "L53r"]
    /\ UNCHANGED <<open, loc, retAccept, retClose, calls, closeCalls, closeReturns,
                   closeErrReturns, casWins, innerCloseResults,
                   innerAcceptCalls, kaVars>>

\* Line 53: l.Listener.Close() returns and its result is assigned to err.
CloseInnerReturns(t) ==
    /\ pc[t] = "L53r"
    /\ \E e \in ListenerClose :
          /\ loc' = [loc EXCEPT ![t].err = e, ![t].innerErr = e]
          /\ innerCloseResults' = Append(innerCloseResults, e)
    /\ pc' = [pc EXCEPT ![t] = "L54"]
    /\ UNCHANGED <<open, retAccept, retClose, calls, closeCalls, closeReturns,
                   closeErrReturns, casWins, innerCloseCalls,
                   innerAcceptCalls, kaVars>>

\* Mutant: the winner swallows the inner listener's error.
CloseReturnErrSwallowed(t) ==
    /\ pc[t] = "L54"
    /\ retClose' = Returned("Close", <<>>, Nil, loc[t], casWins > 0)
    /\ closeReturns' = closeReturns + 1
    /\ closeErrReturns' = closeErrReturns
    /\ pc' = [pc EXCEPT ![t] = "idle"]
    /\ loc' = [loc EXCEPT ![t] = IdleLoc]
    /\ UNCHANGED <<open, retAccept, calls, closeCalls, casWins, innerCloseCalls,
                   innerCloseResults,
                   innerAcceptCalls, kaVars>>

\* Line 54: return err
CloseReturnErr(t) ==
    /\ pc[t] = "L54"
    /\ retClose' = Returned("Close", <<>>, loc[t].err, loc[t], casWins > 0)
    /\ closeReturns' = closeReturns + 1
    /\ closeErrReturns' =
          IF loc[t].err # Nil THEN closeErrReturns + 1 ELSE closeErrReturns
    /\ pc' = [pc EXCEPT ![t] = "idle"]
    /\ loc' = [loc EXCEPT ![t] = IdleLoc]
    /\ UNCHANGED <<open, retAccept, calls, closeCalls, casWins, innerCloseCalls,
                   innerCloseResults,
                   innerAcceptCalls, kaVars>>

\* Mutant: a Close() that lost the swap waits for the winner's inner Close.
CloseReturnNilWaits(t) ==
    /\ pc[t] = "L56"
    /\ innerCloseResults # <<>>
    /\ retClose' = Returned("Close", <<>>, Nil, loc[t], casWins > 0)
    /\ closeReturns' = closeReturns + 1
    /\ pc' = [pc EXCEPT ![t] = "idle"]
    /\ loc' = [loc EXCEPT ![t] = IdleLoc]
    /\ UNCHANGED <<open, retAccept, calls, closeCalls, closeErrReturns,
                   casWins, innerCloseCalls, innerCloseResults,
                   innerAcceptCalls, kaVars>>

\* Mutant: a Close() that lost the swap waits for the flag to be open again.
CloseReturnNilBlocks(t) ==
    /\ pc[t] = "L56"
    /\ open = 1
    /\ retClose' = Returned("Close", <<>>, Nil, loc[t], casWins > 0)
    /\ closeReturns' = closeReturns + 1
    /\ pc' = [pc EXCEPT ![t] = "idle"]
    /\ loc' = [loc EXCEPT ![t] = IdleLoc]
    /\ UNCHANGED <<open, retAccept, calls, closeCalls, closeErrReturns,
                   casWins, innerCloseCalls, innerCloseResults,
                   innerAcceptCalls, kaVars>>

\* Line 56: return nil
CloseReturnNil(t) ==
    /\ pc[t] = "L56"
    /\ retClose' = Returned("Close", <<>>, Nil, loc[t], casWins > 0)
    /\ closeReturns' = closeReturns + 1
    /\ pc' = [pc EXCEPT ![t] = "idle"]
    /\ loc' = [loc EXCEPT ![t] = IdleLoc]
    /\ UNCHANGED <<open, retAccept, calls, closeCalls, closeErrReturns, casWins,
                   innerCloseCalls, innerCloseResults,
                   innerAcceptCalls, kaVars>>

Next ==
    \E t \in Threads :
        \/ AcceptCall(t)
        \/ AcceptInnerReturns(t)
        \/ AcceptLoad(t)
        \/ AcceptReturnErr(t)
        \/ AcceptReturnConn(t)
        \/ CloseCall(t)
        \/ CloseCAS(t)
        \/ CloseInnerInvoke(t)
        \/ CloseInnerReturns(t)
        \/ CloseReturnErr(t)
        \/ CloseReturnNil(t)

Spec == Init /\ [][Next]_vars

(***************************************************************************)
(* The same program over an inner listener whose Close returns and makes   *)
(* every pending and future Accept fail, with goroutines that keep         *)
(* running.  While the inner listener has not been closed its Accept may   *)
(* return anything, or block for ever.                                     *)
(***************************************************************************)

\* Total number of Accept()/Close() calls issued in one fair run.
MaxLiveCalls == 2

\* The inner listener has been closed: l.Listener.Close() has returned.
InnerClosed == innerCloseResults # <<>>

\* l.Listener.Accept() returns while the inner listener is not closed.
InnerAcceptWhileListening(t) ==
    /\ ~InnerClosed
    /\ AcceptInnerReturns(t)

\* l.Listener.Accept() fails because the inner listener has been closed.
InnerAcceptAfterClose(t) ==
    /\ InnerClosed
    /\ pc[t] = "L38"
    /\ \E e \in AcceptErrors :
          loc' = [loc EXCEPT ![t].err = e, ![t].innerErr = e,
                             ![t].failedAfterCloseReturned = (closeReturns > 0),
                             ![t].failedAt = ClosePhase]
    /\ pc' = [pc EXCEPT ![t] = "L40"]
    /\ UNCHANGED <<open, retAccept, retClose, calls, closeCalls, closeReturns,
                   closeErrReturns, casWins, innerCloseCalls,
                   innerCloseResults, innerAcceptCalls, kaVars>>

\* The steps a goroutine takes by itself once it is inside a call, and the
\* steps a closed inner listener takes.
Running(t) ==
    \/ InnerAcceptAfterClose(t)
    \/ AcceptLoad(t)
    \/ AcceptReturnErr(t)
    \/ AcceptReturnConn(t)
    \/ CloseCAS(t)
    \/ CloseInnerInvoke(t)
    \/ CloseInnerReturns(t)
    \/ CloseReturnErr(t)
    \/ CloseReturnNil(t)

\* A goroutine calls l.Accept() in a fair run.
LiveAcceptCall(t) == calls < MaxLiveCalls /\ AcceptCall(t)

\* A goroutine calls l.Close() in a fair run.
LiveCloseCall(t) == calls < MaxLiveCalls /\ CloseCall(t)

LiveNext ==
    \E t \in Threads :
        \/ LiveAcceptCall(t)
        \/ LiveCloseCall(t)
        \/ InnerAcceptWhileListening(t)
        \/ Running(t)

LiveSpec ==
    /\ Init
    /\ [][LiveNext]_vars
    /\ \A t \in Threads : WF_vars(Running(t))

(***************************************************************************)
(* tcpKeepAliveListener.Accept (lines 73-81).                              *)
(***************************************************************************)

\* A goroutine calls ln.Accept() and enters ln.AcceptTCP() (line 74).
KAAcceptCall ==
    /\ kaPc = "idle"
    /\ kaCalls < MaxKeepAliveCalls
    /\ kaCalls' = kaCalls + 1
    /\ kaPc' = "L74"
    /\ kaLoc' = KAIdleLoc
    /\ UNCHANGED <<kaRet, glVars>>

\* ln.AcceptTCP() returns (line 74) and err is tested (line 75).
KAAcceptTCPReturns ==
    /\ kaPc = "L74"
    /\ \E r \in AcceptTCP :
          /\ kaLoc' = [kaLoc EXCEPT !.tc = r.tc, !.err = r.err,
                                    !.accepted = r.tc]
          /\ kaPc' = IF r.err # Nil THEN "L76" ELSE "L78"
    /\ UNCHANGED <<kaRet, kaCalls, glVars>>

\* Line 76: return, with the named results c = nil and err.
KAReturnErr ==
    /\ kaPc = "L76"
    /\ kaRet' = KAReturned(<<>>, kaLoc.err, kaLoc)
    /\ kaPc' = "idle"
    /\ kaLoc' = KAIdleLoc
    /\ UNCHANGED <<kaCalls, glVars>>

\* Line 78: tc.SetKeepAlive(true)
KASetKeepAlive ==
    /\ kaPc = "L78"
    /\ \E ok \in BOOLEAN :
          kaLoc' = [kaLoc EXCEPT
                      !.tc = <<SetKeepAlive(Head(kaLoc.tc), TRUE, ok)>>,
                      !.setters = Append(kaLoc.setters,
                                         <<"SetKeepAlive", ok>>)]
    /\ kaPc' = "L79"
    /\ UNCHANGED <<kaRet, kaCalls, glVars>>

\* Line 79: tc.SetKeepAlivePeriod(3 * time.Minute)
KASetKeepAlivePeriod ==
    /\ kaPc = "L79"
    /\ \E ok \in BOOLEAN :
          kaLoc' = [kaLoc EXCEPT
                      !.tc = <<SetKeepAlivePeriod(Head(kaLoc.tc),
                                                  KeepAlivePeriod, ok)>>,
                      !.setters = Append(kaLoc.setters,
                                         <<"SetKeepAlivePeriod", ok>>)]
    /\ kaPc' = "L80"
    /\ UNCHANGED <<kaRet, kaCalls, glVars>>

\* Line 80: return tc, nil
KAReturnConn ==
    /\ kaPc = "L80"
    /\ kaRet' = KAReturned(kaLoc.tc, Nil, kaLoc)
    /\ kaPc' = "idle"
    /\ kaLoc' = KAIdleLoc
    /\ UNCHANGED <<kaCalls, glVars>>

KANext ==
    \/ KAAcceptCall
    \/ KAAcceptTCPReturns
    \/ KAReturnErr
    \/ KASetKeepAlive
    \/ KASetKeepAlivePeriod
    \/ KAReturnConn

KeepAliveSpec == Init /\ [][KANext]_vars

(***************************************************************************)
(* Observations used by the properties.                                    *)
(***************************************************************************)

\* err is a listenerAlreadyClosed value (the type test a caller applies).
IsShutdownClassified(err) == Len(err) > 0 /\ Head(err) = "listenerAlreadyClosed"

\* err is the listenerAlreadyClosed value whose embedded error is exactly e.
WrapsExactly(err, e) == IsShutdownClassified(err) /\ Tail(err) = e

\* The last completed Accept() had its inner accept fail.
AcceptFailed == retAccept.op = "Accept" /\ retAccept.innerErr # Nil

\* The winner of the compare-and-swap has invoked l.Listener.Close().
WinnerHasRun == casWins > 0 /\ \A t \in Threads : pc[t] # "L53"

\* Every Close() call begun so far has returned, and there is at least one.
AllClosesReturned == closeCalls > 0 /\ closeReturns = closeCalls

\* C1: whatever the number and interleaving of Close() calls, the inner
\* listener's Close is invoked at most once, and once the goroutine that won
\* the compare-and-swap has run line 53 it has been invoked exactly once.
C1_InnerCloseAtMostOnce ==
    /\ innerCloseCalls <= 1
    /\ WinnerHasRun => innerCloseCalls = 1
    /\ closeCalls = 0 => innerCloseCalls = 0

\* Several Close() calls have returned and the inner Close ran once.
C1_Witness ==
    /\ closeCalls >= 2
    /\ closeReturns >= 2
    /\ WinnerHasRun
    /\ innerCloseCalls = 1

\* C2 as stated: once N Close() calls issued by N goroutines have all
\* returned, the inner Close was invoked exactly once and every one of the
\* N calls returned nil.
C2_AllCloseCallsReturnNil ==
    (AllClosesReturned /\ closeCalls >= 2) =>
        (innerCloseCalls = 1 /\ closeErrReturns = 0)

\* C2 amended: once N Close() calls have all returned, the inner Close was
\* invoked exactly once, at most one of the N calls returned an error, and
\* all N returned nil when the inner Close returned nil.
C2_AllCloseCallsReturnNilUnlessInnerFails ==
    (AllClosesReturned /\ closeCalls >= 2) =>
        /\ innerCloseCalls = 1
        /\ Len(innerCloseResults) = 1
        /\ closeErrReturns <= 1
        /\ innerCloseResults[1] = Nil => closeErrReturns = 0
        /\ innerCloseResults[1] # Nil => closeErrReturns = 1

\* Every goroutine called Close(), the calls overlapped (the last to return
\* began before any had returned), and all returned nil.
C2_Witness ==
    /\ closeCalls = NumThreads
    /\ closeReturns = NumThreads
    /\ ~retClose.startedAfterCloseReturned
    /\ innerCloseCalls = 1
    /\ closeErrReturns = 0

\* C3: at most one Close() call wins the compare-and-swap; that call returns
\* what the inner Close returned, error included; every other Close() call
\* returns nil and so never returns the inner Close's error.
C3_OnlyWinnerReturnsInnerResult ==
    /\ casWins <= 1
    /\ AllClosesReturned => casWins = 1
    /\ retClose.op = "Close" =>
          IF retClose.won
          THEN /\ innerCloseResults = <<retClose.err>>
               /\ closeErrReturns = (IF retClose.err = Nil THEN 0 ELSE 1)
          ELSE retClose.err = Nil

\* The winner has returned the inner Close's error after another Close()
\* call had already returned nil.
C3_Witness ==
    /\ retClose.op = "Close"
    /\ retClose.won
    /\ retClose.err \in CloseErrors
    /\ closeReturns >= 2
    /\ closeErrReturns = 1

\* C4: once a Close() call has returned, an Accept() call that starts
\* afterwards and whose inner accept fails with E returns a nil connection
\* and the listenerAlreadyClosed value embedding exactly E.
C4_AcceptAfterCloseIsClassified ==
    (AcceptFailed /\ retAccept.startedAfterCloseReturned) =>
        /\ retAccept.conn = <<>>
        /\ WrapsExactly(retAccept.err, retAccept.innerErr)

\* An Accept() begun after a Close() returned has failed and returned.
C4_Witness ==
    /\ AcceptFailed
    /\ retAccept.startedAfterCloseReturned
    /\ retAccept.flagRead = 0
    /\ WrapsExactly(retAccept.err, retAccept.innerErr)

\* C5: if no Close() call has performed its compare-and-swap by the time
\* Accept() returns, an Accept() whose inner accept failed with E returns
\* exactly E, and not the listenerAlreadyClosed value.
C5_AcceptWhileOpenIsUnchanged ==
    (AcceptFailed /\ ~retAccept.casBeforeReturn) =>
        /\ retAccept.conn = <<>>
        /\ retAccept.err = retAccept.innerErr
        /\ ~IsShutdownClassified(retAccept.err)

\* A failed Accept() has returned E while the listener is still open, with a
\* Close() call already begun but not yet at its compare-and-swap.
C5_Witness ==
    /\ AcceptFailed
    /\ ~retAccept.casBeforeReturn
    /\ open = 1
    /\ closeCalls > 0
    /\ retAccept.err = retAccept.innerErr

\* C6: an Accept() that was in flight before any Close() call began, and
\* whose inner accept fails with E after a Close() call has returned,
\* returns the listenerAlreadyClosed value embedding E; a further Close()
\* call, concurrent (not the winner) or later (begun after a Close() call
\* returned), returns nil, and the inner Close is not invoked a second time.
C6_InFlightAcceptAndSecondClose ==
    /\ (AcceptFailed /\ ~retAccept.startedAfterCloseBegun
            /\ retAccept.failedAfterCloseReturned) =>
          /\ retAccept.conn = <<>>
          /\ WrapsExactly(retAccept.err, retAccept.innerErr)
    /\ (retClose.op = "Close"
            /\ (retClose.startedAfterCloseReturned \/ ~retClose.won)) =>
          /\ ~retClose.won
          /\ retClose.err = Nil
          /\ innerCloseCalls <= 1

\* The scenario has run: the Accept() was in flight before Close() was
\* called, its inner accept failed after that Close() returned, and a second
\* Close() call begun after the first one returned has returned nil.
C6_Witness ==
    /\ AcceptFailed
    /\ ~retAccept.startedAfterCloseBegun
    /\ retAccept.failedAfterCloseReturned
    /\ IsShutdownClassified(retAccept.err)
    /\ retClose.op = "Close"
    /\ retClose.startedAfterCloseReturned
    /\ retClose.err = Nil
    /\ closeReturns = 2
    /\ innerCloseCalls = 1

\* C7: the open flag is 1 at construction, is always 0 or 1, and every
\* change of its value is from 1 (open) to 0 (closed); so it changes at most
\* once and never goes from closed back to open.
C7_OpenFlagOnlyCloses ==
    /\ open = 1
    /\ [](open \in {0, 1})
    /\ [][open' # open => (open = 1 /\ open' = 0)]_vars

\* The flag has been closed and a further compare-and-swap has been
\* attempted on the closed flag by a Close() call that has returned.
C7_Witness ==
    /\ open = 0
    /\ casWins = 1
    /\ retClose.op = "Close"
    /\ ~retClose.won

\* C8: a listenerAlreadyClosed value is returned only by an Accept() whose
\* inner accept failed and which then read the flag as closed; it is never
\* returned when the inner accept succeeded, never when the flag was read as
\* open, and never by Close().
C8_ClassifiedOnlyWhenReadClosed ==
    /\ IsShutdownClassified(retAccept.err) =>
          /\ retAccept.innerErr # Nil
          /\ ~retAccept.innerOK
          /\ retAccept.flagRead = 0
    /\ (retAccept.op = "Accept" /\ retAccept.innerOK) =>
          /\ retAccept.err = Nil
          /\ retAccept.flagRead = 2
    /\ ~IsShutdownClassified(retClose.err)
    /\ \A t \in Threads :
          IsShutdownClassified(loc[t].err) =>
              (pc[t] = "L43" /\ loc[t].flagRead = 0)

\* An Accept() has returned a listenerAlreadyClosed value and a Close() has
\* returned an error of the inner listener.
C8_Witness ==
    /\ IsShutdownClassified(retAccept.err)
    /\ retAccept.flagRead = 0
    /\ retClose.op = "Close"
    /\ retClose.err # Nil

\* C9: every Accept() returns exactly one of a connection and an error: if
\* the inner accept succeeded, a gracefulConn holding that raw connection
\* with lastHTTPState 0, and a nil error; if it failed with E, a nil
\* connection and a non-nil error that is E or the listenerAlreadyClosed
\* value embedding E.
C9_AcceptReturnsConnOrError ==
    retAccept.op = "Accept" =>
        /\ (retAccept.conn = <<>>) # (retAccept.err = Nil)
        /\ retAccept.innerOK =>
              /\ retAccept.innerConn # <<>>
              /\ retAccept.conn =
                    <<[Conn |-> Head(retAccept.innerConn), lastHTTPState |-> 0]>>
              /\ retAccept.err = Nil
        /\ ~retAccept.innerOK =>
              /\ retAccept.innerErr \in AcceptErrors
              /\ retAccept.conn = <<>>
              /\ retAccept.err # Nil
              /\ \/ retAccept.err = retAccept.innerErr
                 \/ WrapsExactly(retAccept.err, retAccept.innerErr)

\* An Accept() has returned a wrapped connection after the flag was closed.
C9_Witness ==
    /\ retAccept.op = "Accept"
    /\ retAccept.innerOK
    /\ Len(retAccept.conn) = 1
    /\ Head(retAccept.conn).Conn \in RawConns
    /\ retAccept.casBeforeReturn

\* C10: the classification follows the single read of the flag and not the
\* flag's value when Accept() returns: an Accept() that read the flag as
\* open returns the inner error unclassified, also when a Close() has
\* performed its compare-and-swap before the Accept() returns.
C10_UnclassifiedWhenReadOpen ==
    /\ (AcceptFailed /\ retAccept.flagRead = 1) =>
          /\ retAccept.err = retAccept.innerErr
          /\ ~IsShutdownClassified(retAccept.err)
    /\ \A t \in Threads :
          (pc[t] = "L43" /\ loc[t].flagRead = 1) =>
              loc[t].err = loc[t].innerErr

\* The interleaving exists: the Accept() began before any Close(), its inner
\* accept failed and the flag was read as open, a Close() then performed its
\* compare-and-swap, and the Accept() returned the error unclassified.
C10_Witness ==
    /\ AcceptFailed
    /\ ~retAccept.startedAfterCloseBegun
    /\ retAccept.flagRead = 1
    /\ retAccept.casBeforeReturn
    /\ open = 0
    /\ retAccept.err = retAccept.innerErr
    /\ ~IsShutdownClassified(retAccept.err)

\* C11 as stated, second interleaving: an accept failure caused by the
\* intentional close can be returned unclassified, that is, an Accept() whose
\* inner accept failed after l.Listener.Close() was invoked can still take
\* the branch that returns the inner error unwrapped.
C11_CloseCausedFailureMayBeUnclassified ==
    \A t \in Threads :
        (pc[t] = "L40" /\ loc[t].failedAt = "closing") =>
            ENABLED (AcceptLoad(t) /\ loc'[t].err = loc[t].innerErr)

\* C11 amended: the race misclassifies in one direction only.  A failure of
\* the inner accept that happened while the flag was still open may be
\* returned shutdown-classified (when a Close() flips the flag before the
\* read), but a failure that happened after l.Listener.Close() was invoked
\* is always returned shutdown-classified; and a shutdown-classified error
\* is returned only after a compare-and-swap has succeeded.
C11_MisclassifiesOneWayOnly ==
    /\ (AcceptFailed /\ retAccept.failedAt = "closing") =>
          WrapsExactly(retAccept.err, retAccept.innerErr)
    /\ (AcceptFailed /\ retAccept.failedAt = "open"
            /\ ~IsShutdownClassified(retAccept.err)) =>
          retAccept.flagRead = 1
    /\ (AcceptFailed /\ IsShutdownClassified(retAccept.err)) =>
          retAccept.casBeforeReturn

\* The first interleaving exists: the inner accept failed before any
\* compare-and-swap, in an Accept() begun before any Close(); a Close() then
\* flipped the flag and the Accept() returned the wrapper.
C11_Witness ==
    /\ AcceptFailed
    /\ ~retAccept.startedAfterCloseBegun
    /\ retAccept.failedAt = "open"
    /\ retAccept.flagRead = 0
    /\ WrapsExactly(retAccept.err, retAccept.innerErr)

\* The last completed tcpKeepAliveListener.Accept had AcceptTCP succeed.
KAAccepted == kaRet.op = "Accept" /\ kaRet.accepted # <<>>

\* The last completed tcpKeepAliveListener.Accept had AcceptTCP fail.
KAFailed == kaRet.op = "Accept" /\ kaRet.accepted = <<>>

\* C12: when AcceptTCP succeeds, the connection returned is the
\* accepted one with keep-alive enabled and the period set to 3 minutes
\* (180 s), nothing else changed; when it fails, the error is returned
\* unchanged with no connection and no setter was called.
C12_ReturnedConnHasKeepAlive ==
    /\ KAAccepted =>
          /\ kaRet.err = Nil
          /\ kaRet.c = <<[Head(kaRet.accepted) EXCEPT
                            !.keepAlive = TRUE, !.keepAlivePeriod = 180]>>
    /\ KAFailed =>
          /\ kaRet.c = <<>>
          /\ kaRet.err = kaRet.innerErr
          /\ kaRet.err \in AcceptErrors
          /\ kaRet.setters = <<>>

\* C13: Close() closes the flag before it invokes l.Listener.Close(), so an
\* inner accept failure that happens after that invocation is read with the
\* flag closed and returned shutdown-classified, whether or not the winning
\* Close() has returned.
C13_FlagClosedBeforeInnerClose ==
    /\ innerCloseCalls > 0 => (open = 0 /\ casWins > 0)
    /\ \A t \in Threads :
          /\ pc[t] \in {"L53", "L53r", "L54"} => open = 0
          /\ (pc[t] = "L43" /\ loc[t].failedAt = "closing") =>
                /\ loc[t].flagRead = 0
                /\ WrapsExactly(loc[t].err, loc[t].innerErr)
    /\ (AcceptFailed /\ retAccept.failedAt = "closing") =>
          /\ retAccept.flagRead = 0
          /\ retAccept.conn = <<>>
          /\ WrapsExactly(retAccept.err, retAccept.innerErr)

\* An inner accept that failed after l.Listener.Close() was invoked has been
\* returned shutdown-classified while no Close() call has returned yet.
C13_Witness ==
    /\ AcceptFailed
    /\ retAccept.failedAt = "closing"
    /\ WrapsExactly(retAccept.err, retAccept.innerErr)
    /\ closeReturns = 0
    /\ \E t \in Threads : pc[t] = "L53r"

\* C14: the flag is written only by the compare-and-swap of a Close() at
\* line 52, the inner Close is invoked only by a Close() at line 53, and the
\* inner accept only by Accept(); so as long as no Close() has been called
\* the listener is open, whatever Accept() calls were made.
C14_OnlyCloseWritesFlag ==
    /\ [](closeCalls = 0 => (open = 1 /\ innerCloseCalls = 0 /\ casWins = 0))
    /\ [](innerAcceptCalls + closeCalls = calls)
    /\ [][open' # open =>
            \E t \in Threads : pc[t] = "L52" /\ pc'[t] = "L53"]_vars
    /\ [][innerCloseCalls' # innerCloseCalls =>
            \E t \in Threads : pc[t] = "L53" /\ pc'[t] = "L53r"]_vars
    /\ [][innerAcceptCalls' # innerAcceptCalls =>
            \E t \in Threads : pc[t] = "idle" /\ pc'[t] = "L38"]_vars

\* Every call of the run was an Accept(), all have returned, and the
\* listener is still open.
C14_Witness ==
    /\ calls = MaxCalls
    /\ closeCalls = 0
    /\ \A t \in Threads : pc[t] = "idle"
    /\ retAccept.op = "Accept"
    /\ open = 1

\* C15: no internal retries.  Each Accept() call invokes the inner accept
\* once: after a failure it goes on to return and never re-enters the inner
\* accept.  Each Close() call invokes the inner Close at most once; after a
\* failed inner Close the flag stays closed, the inner Close is not invoked
\* again, and every Close() that then reaches the compare-and-swap loses it
\* and returns nil.
C15_NoInternalRetries ==
    /\ [](innerAcceptCalls + closeCalls = calls /\ innerCloseCalls <= closeCalls)
    /\ []((\E i \in DOMAIN innerCloseResults : innerCloseResults[i] # Nil) =>
             (open = 0 /\ innerCloseCalls = 1 /\ Len(innerCloseResults) = 1))
    /\ [][\A t \in Threads :
             /\ (pc[t] \in {"L40", "L43", "L46"} /\ pc'[t] # pc[t]) =>
                    pc'[t] \in {"L43", "idle"}
             /\ (pc[t] \in {"L53r", "L54", "L56"} /\ pc'[t] # pc[t]) =>
                    pc'[t] \in {"L54", "idle"}
             /\ (pc[t] = "L52" /\ pc'[t] # pc[t] /\ innerCloseResults # <<>>) =>
                    (pc'[t] = "L56" /\ open' = 0)
             /\ (pc[t] = "L56" /\ pc'[t] # pc[t]) => retClose'.err = Nil]_vars

\* The inner Close failed, the winner returned that error, and a later
\* Close() call returned nil without another inner Close.
C15_Witness ==
    /\ innerCloseResults = <<<<"EC">>>>
    /\ closeErrReturns = 1
    /\ closeReturns = 2
    /\ retClose.op = "Close"
    /\ retClose.startedAfterCloseReturned
    /\ ~retClose.won
    /\ retClose.err = Nil
    /\ innerCloseCalls = 1

\* C16: a Close() that lost the compare-and-swap returns nil without waiting
\* for the winner: its return is enabled whatever the winner is doing.  A
\* returned Close() therefore implies that the flag is closed, not that the
\* inner listener is.
C16_LoserReturnsWithoutWaiting ==
    /\ closeReturns > 0 => open = 0
    /\ \A t \in Threads : pc[t] = "L56" => ENABLED CloseReturnNil(t)
    /\ (retClose.op = "Close" /\ ~retClose.won) => retClose.err = Nil

\* A Close() has returned nil while the winner has not yet invoked
\* l.Listener.Close().
C16_Witness ==
    /\ retClose.op = "Close"
    /\ ~retClose.won
    /\ retClose.err = Nil
    /\ closeReturns > 0
    /\ innerCloseCalls = 0
    /\ \E t \in Threads : pc[t] = "L53"

\* C17: the flag does not gate successful accepts: Accept() returns a
\* connection exactly when the inner accept succeeded, also when the flag
\* was closed, or a Close() had returned, before the Accept() began.
C17_FlagDoesNotGateSuccess ==
    /\ retAccept.op = "Accept" =>
          ((retAccept.conn # <<>>) <=> (retAccept.innerConn # <<>>))
    /\ (retAccept.op = "Accept" /\ retAccept.innerConn # <<>>) =>
          /\ retAccept.err = Nil
          /\ Head(retAccept.conn).Conn = Head(retAccept.innerConn)
          /\ retAccept.flagRead = 2
    /\ \A t \in Threads : pc[t] = "L46" => ENABLED AcceptReturnConn(t)

\* An Accept() begun after a Close() returned has returned a connection.
C17_Witness ==
    /\ retAccept.op = "Accept"
    /\ retAccept.startedAfterCloseReturned
    /\ retAccept.casBeforeReturn
    /\ open = 0
    /\ Len(retAccept.conn) = 1
    /\ retAccept.err = Nil

\* A Close() call of goroutine t is in progress.
InClose(t) == pc[t] \in {"L52", "L53", "L53r", "L54", "L56"}

\* An Accept() call of goroutine t is in progress.
InAccept(t) == pc[t] \in {"L38", "L40", "L43", "L46"}

\* C18 as stated, safety part: an Accept() that was in flight when Close()
\* was called (it began before any Close() call, and a Close() had performed
\* its compare-and-swap before it returned) returns a shutdown-classified
\* error.
C18_InFlightAcceptIsClassified ==
    (retAccept.op = "Accept" /\ ~retAccept.startedAfterCloseBegun
        /\ retAccept.casBeforeReturn) =>
        IsShutdownClassified(retAccept.err)

\* C18 amended: with goroutines that keep running and an inner listener
\* whose Close returns and makes every pending and future Accept fail, every
\* Close() call eventually returns and every Accept() in flight once a
\* Close() has been called eventually returns; it returns a
\* shutdown-classified error whenever its inner accept failed after the flag
\* was closed, in particular when the closed inner listener unblocked it.
C18_CallsReturnAfterClose ==
    /\ \A t \in Threads : InClose(t) ~> (pc[t] = "idle")
    /\ \A t \in Threads : (InAccept(t) /\ closeCalls > 0) ~> (pc[t] = "idle")
    /\ []((AcceptFailed /\ retAccept.failedAt \in {"flipped", "closing"}) =>
             WrapsExactly(retAccept.err, retAccept.innerErr))
    /\ [](\A t \in Threads :
             (pc[t] = "L43" /\ loc[t].failedAt \in {"flipped", "closing"}) =>
                 WrapsExactly(loc[t].err, loc[t].innerErr))

\* An Accept() begun before any Close() has been unblocked by the closed
\* inner listener and has returned shutdown-classified; every call of the
\* run has returned.
C18_Witness ==
    /\ AcceptFailed
    /\ ~retAccept.startedAfterCloseBegun
    /\ retAccept.failedAt = "closing"
    /\ InnerClosed
    /\ IsShutdownClassified(retAccept.err)
    /\ closeReturns = closeCalls
    /\ \A t \in Threads : pc[t] = "idle"

====
